---- MODULE Spec2Model ----
(***************************************************************************)
(* State-machine model of scraper.py: the chunked, resumable social-proof  *)
(* scraper.  One invocation of the script is a process that reads the      *)
(* identifier column, loads the checkpoint, drives one chunk through       *)
(* fetch + extraction, saves the checkpoint and writes the results to the  *)
(* sheet.  The checkpoint file and the sheet outlive the process.          *)
(***************************************************************************)
EXTENDS Integers, Sequences, FiniteSets, TLC

(* ---------------------------- bounds ---------------------------------- *)
MaxLen == 3        \* longest identifier column (data rows) explored
MaxChunk == 3      \* largest CHUNK_SIZE explored
MaxElems == 2      \* most elements of a page handed to the extractor

(* ----------------------- program constants ---------------------------- *)
START_ROW == 3     \* first sheet row holding data

(* ------------------------- identifiers -------------------------------- *)
\* An identifier cell is a sequence of characters; " " is whitespace.
Cells == { <<>>, <<" ">>, <<"A">>, <<"B">> }
HeaderCell == <<"H">>

IsSpace(c) == c = " "

RECURSIVE LStrip(_)
LStrip(s) == IF s # <<>> /\ IsSpace(Head(s)) THEN LStrip(Tail(s)) ELSE s

RECURSIVE RStrip(_)
RStrip(s) == IF s # <<>> /\ IsSpace(s[Len(s)])
             THEN RStrip(SubSeq(s, 1, Len(s) - 1)) ELSE s

\* str.strip()
Strip(s) == RStrip(LStrip(s))

\* truthiness of asin.strip()
NonBlank(s) == Strip(s) # <<>>

Min(a, b) == IF a <= b THEN a ELSE b

\* all_values[START_ROW-1:]
ColumnData(vals) == SubSeq(vals, START_ROW, Len(vals))

RECURSIVE FilterNonBlank(_)
FilterNonBlank(s) ==
  IF s = <<>> THEN <<>>
  ELSE IF NonBlank(Head(s)) THEN <<Head(s)>> \o FilterNonBlank(Tail(s))
       ELSE FilterNonBlank(Tail(s))

\* asins = [asin for asin in all_values[START_ROW-1:] if asin.strip()]
ReadAsins(vals) == FilterNonBlank(ColumnData(vals))

\* The index of the last occurrence.
ListIndex_last(s, x) == (CHOOSE i \in 1..Len(s) : s[i] = x /\ \A j \in (i+1)..Len(s) : s[j] # x) - 1

\* list.index(x): 0-based index of the first occurrence
ListIndex(s, x) == (CHOOSE i \in 1..Len(s) : s[i] = x /\ \A j \in 1..(i-1) : s[j] # x) - 1

(* --------------------------- documents -------------------------------- *)
\* Texts are sequences of words; matching is case-insensitive.
LowerWord(w) ==
  CASE w = "Month" -> "month"
    [] w = "Bought" -> "bought"
    [] w = "Robot" -> "robot"
    [] w = "Check" -> "check"
    [] OTHER -> w

Lower(t) == [i \in 1..Len(t) |-> LowerWord(t[i])]

\* 'word' in text.lower()
Contains(t, w) == \E i \in 1..Len(t) : Lower(t)[i] = w

\* 'robot check' in text.lower()
ContainsRobotCheck(t) ==
  \E i \in 1..(Len(t) - 1) : Lower(t)[i] = "robot" /\ Lower(t)[i+1] = "check"

NoElem == [tag |-> "none", string |-> <<>>, text |-> <<>>]

PrimaryText == <<"1K+", "bought", "in", "past", "Month">>
FallbackText == <<"Over", "500", "Bought", "in", "past", "month">>
OtherText == <<"Add", "to", "cart">>

PrimaryElem == [tag |-> "span", string |-> PrimaryText, text |-> PrimaryText]
FallbackElem == [tag |-> "span", string |-> FallbackText, text |-> FallbackText]
OtherElem == [tag |-> "div", string |-> OtherText, text |-> OtherText]

\* Pages the fetcher may return in the resumable-run model: a challenge page,
\* a product page carrying the social-proof element, and one without it.
ChallengeDoc ==
  [captcha_input |-> TRUE, body_text |-> <<"Enter", "characters">>,
   primary |-> NoElem, elems |-> <<FallbackElem>>]
FoundDoc ==
  [captcha_input |-> FALSE, body_text |-> PrimaryText,
   primary |-> PrimaryElem, elems |-> <<OtherElem, PrimaryElem>>]
NotFoundDoc ==
  [captcha_input |-> FALSE, body_text |-> OtherText,
   primary |-> NoElem, elems |-> <<OtherElem>>]
FetchDocs == {ChallengeDoc, FoundDoc, NotFoundDoc}

is_captcha_page(doc) ==
  doc.captcha_input \/ ContainsRobotCheck(doc.body_text)

\* The selected element is accepted whatever its text.
PrimaryMatch_nomonth(d) == d.primary

\* soup.select_one(...) accepted only if 'month' in its text
PrimaryMatch(doc) ==
  IF doc.primary # NoElem /\ Contains(doc.primary.text, "month")
  THEN doc.primary ELSE NoElem

\* first span/div/p whose .string contains 'bought' and 'month'
FallbackQualifies(e) ==
  /\ e.tag \in {"span", "div", "p"}
  /\ e.string # <<>>
  /\ Contains(e.string, "bought")
  /\ Contains(e.string, "month")

FallbackMatch(doc) ==
  IF \E i \in 1..Len(doc.elems) : FallbackQualifies(doc.elems[i])
  THEN doc.elems[CHOOSE i \in 1..Len(doc.elems) :
                   /\ FallbackQualifies(doc.elems[i])
                   /\ \A j \in 1..(i-1) : ~FallbackQualifies(doc.elems[j])]
  ELSE NoElem

\* bought_element after the primary and fallback attempts
BoughtElement(doc) ==
  IF PrimaryMatch(doc) # NoElem THEN PrimaryMatch(doc) ELSE FallbackMatch(doc)

\* element.get_text(strip=True)
GetText(e) == e.text

NoOutcome == [kind |-> "none", text |-> <<>>]

\* The matching runs before the challenge check.
Extract_matchfirst(d) ==
  IF BoughtElement(d) # NoElem
  THEN [kind |-> "Found", text |-> GetText(BoughtElement(d))]
  ELSE IF is_captcha_page(d) THEN [kind |-> "Challenge", text |-> <<>>]
       ELSE [kind |-> "NotFound", text |-> <<>>]

\* Lines 157-186: classification of one fetched page.
Extract(d) ==
  IF is_captcha_page(d) THEN [kind |-> "Challenge", text |-> <<>>]
  ELSE IF BoughtElement(d) # NoElem
       THEN [kind |-> "Found", text |-> GetText(BoughtElement(d))]
       ELSE [kind |-> "NotFound", text |-> <<>>]

\* Elements of the pages handed to the extractor when it is studied alone.
MonthOnlyText == <<"Deal", "of", "the", "Month">>
PlainText == <<"In", "stock">>
MonthOnlyElem == [tag |-> "span", string |-> MonthOnlyText, text |-> MonthOnlyText]
PlainSpan == [tag |-> "span", string |-> PlainText, text |-> PlainText]
\* a div whose text sits in child tags: .string is None
NestedElem == [tag |-> "div", string |-> <<>>, text |-> FallbackText]
\* a tag find_all(['span', 'div', 'p']) does not return
LinkElem == [tag |-> "a", string |-> FallbackText, text |-> FallbackText]

Elems == {PrimaryElem, FallbackElem, OtherElem, MonthOnlyElem, PlainSpan,
          NestedElem, LinkElem}

\* Text of the page outside its elements.
ExtraTexts == { <<>>, <<"Robot", "Check">>, <<"robot">> }

RECURSIVE TextOf(_)
TextOf(es) == IF es = <<>> THEN <<>> ELSE Head(es).text \o TextOf(Tail(es))

\* The element the primary selector finds: none, or a span of the page.
PrimaryChoices(es) ==
  {NoElem} \cup { es[i] : i \in { j \in 1..Len(es) : es[j].tag = "span" } }

\* soup.get_text() is the text of the whole page.
ExtractDocs ==
  { [captcha_input |-> c, body_text |-> x \o TextOf(es), primary |-> p, elems |-> es] :
      c \in BOOLEAN, x \in ExtraTexts,
      es \in UNION { [1..k -> Elems] : k \in 0..MaxElems },
      p \in Elems \cup {NoElem} }

(* ----------------------- checkpoint file ------------------------------ *)
NoFile == [kind |-> "absent", idx |-> 0]
CorruptFile == [kind |-> "corrupt", idx |-> 0]
ValidFile(i) == [kind |-> "valid", idx |-> i]

\* load_progress() on a readable or missing file
load_progress(file) == IF file.kind = "valid" THEN file.idx ELSE 0

\* json.load raises on an unreadable file; load_progress does not catch it
LoadRaises(file) == file.kind = "corrupt"

\* The chunk is not cut at the end of the list.
EndIndex_nomin(start, size, n) == start + size

\* end_index = min(start_index + CHUNK_SIZE, len(asins))
EndIndex(start, size, n) == Min(start + size, n)

CaptchaStopIndex_skips(i) == i + 1

\* The position before the challenge is returned.
CaptchaStopIndex_before(i) == i - 1

\* return ..., index   (CAPTCHA branch)
CaptchaStopIndex(i) == i

\* return ..., end_index - 1   (loop exhausted)
NormalStopIndex(e) == e - 1

\* row_index = asins.index(entry[0]) + START_ROW
RowIndex(list, asin) == ListIndex(list, asin) + START_ROW

(* ----------------------------- state ---------------------------------- *)
VARIABLES
  all_values,          \* sheet.col_values(ASIN_COLUMN), fixed
  chunk_size,          \* CHUNK_SIZE, fixed
  doc,                 \* page handed to the extractor when it is studied alone
  outcome,             \* its classification, NoOutcome before
  progress_file,       \* contents of PROGRESS_FILE
  sheet_cells,         \* RESULT_COLUMN: row -> text written, <<>> if none
  pc,                  \* position of the running invocation, "idle" if none
  asins, start_index, end_index, index,
  data, products_processed, products_with_data, last_processed,
  write_i,             \* next entry of chunk_data to write
  \* history of the run
  examined_before,     \* positions earlier invocations classified or skipped after an error
  attempted_now,       \* positions classified Found/NotFound by this invocation
  skipped_now,         \* positions this invocation skipped after a fetch error
  fetched_now,         \* positions fetched by this invocation, in order
  halt_at,             \* position of this invocation's challenge page, -1 if none
  prev_halt,           \* challenge position of the last invocation, if it saved
  prev_start,          \* start index of the last invocation, if it died before saving
  faulted,             \* a challenge page, fetch error, setup error, sink error or crash happened
  last_exit,           \* how the last invocation ended, "running" while one runs
  last_write,          \* (asin, row) of this invocation's latest sheet update
  slept,               \* time.sleep(PAGE_LOAD_DELAY) has run since this invocation's latest fetch
  prev_done,           \* last position attempted by the last invocation, if it was
                       \* interrupted after its save, else -1
  lost                 \* rows whose result an invocation that saved its checkpoint
                       \* never wrote, and no later invocation has written

locals == <<pc, asins, start_index, end_index, index, data,
            products_processed, products_with_data, last_processed, write_i>>
history == <<examined_before, attempted_now, skipped_now, fetched_now, halt_at,
             prev_halt, prev_start, faulted, last_exit, last_write,
             slept, prev_done, lost>>
vars == <<all_values, chunk_size, doc, outcome, progress_file, sheet_cells,
          locals, history>>

Rows == 1..(START_ROW - 1 + MaxLen)

SeqsUpTo(S, n) == UNION { [1..k -> S] : k \in 0..n }

\* Column values the sheet may hold: fewer rows than START_ROW, or two header
\* rows followed by data cells (col_values drops trailing empty cells).
SheetColumns ==
  { [i \in 1..k |-> HeaderCell] : k \in 0..(START_ROW - 1) }
  \cup { [i \in 1..(START_ROW - 1) |-> HeaderCell] \o d :
           d \in { s \in SeqsUpTo(Cells, MaxLen) : s # <<>> /\ s[Len(s)] # <<>> } }

\* No invocation is running and none has run: no checkpoint, empty result column.
Idle ==
  /\ progress_file = NoFile
  /\ sheet_cells = [r \in Rows |-> <<>>]
  /\ pc = "idle"
  /\ asins = <<>>
  /\ start_index = 0
  /\ end_index = 0
  /\ index = 0
  /\ data = <<>>
  /\ products_processed = 0
  /\ products_with_data = 0
  /\ last_processed = 0
  /\ write_i = 1
  /\ examined_before = {}
  /\ attempted_now = {}
  /\ skipped_now = {}
  /\ fetched_now = <<>>
  /\ halt_at = -1
  /\ prev_halt = -1
  /\ prev_start = -1
  /\ faulted = FALSE
  /\ last_exit = "none"
  /\ last_write = <<>>
  /\ slept = TRUE
  /\ prev_done = -1
  /\ lost = {}

Init ==
  /\ all_values \in SheetColumns
  /\ chunk_size \in 1..MaxChunk
  /\ doc = NotFoundDoc
  /\ outcome = NoOutcome
  /\ Idle

MaxOf(S) == CHOOSE m \in S : \A x \in S : x <= m

\* Rows of the entries of chunk_data not written yet.
UnwrittenRows == { RowIndex(asins, data[i][1]) : i \in write_i..Len(data) }

\* The process is gone: its memory is reset, what it attempted is history.
\* saved: its checkpoint had been saved.
Exit(how, halt, start, saved) ==
  /\ pc' = "idle"
  /\ asins' = <<>>
  /\ start_index' = 0
  /\ end_index' = 0
  /\ index' = 0
  /\ data' = <<>>
  /\ products_processed' = 0
  /\ products_with_data' = 0
  /\ last_processed' = 0
  /\ write_i' = 1
  /\ examined_before' = examined_before \cup attempted_now \cup skipped_now
  /\ attempted_now' = {}
  /\ skipped_now' = {}
  /\ fetched_now' = <<>>
  /\ halt_at' = -1
  /\ prev_halt' = halt
  /\ prev_start' = start
  /\ last_exit' = how
  /\ last_write' = <<>>
  /\ slept' = TRUE
  /\ prev_done' = IF saved /\ how # "completed" THEN MaxOf(attempted_now \cup {-1}) ELSE -1
  /\ lost' = IF saved THEN lost \cup UnwrittenRows ELSE lost

(* ---------------------------- actions --------------------------------- *)
fixed == <<all_values, chunk_size, doc, outcome>>

\* Lines 213-231: credentials or the sheet connection fail; the outer handler
\* prints the error and the script ends before anything is read.
SetupFails ==
  /\ pc = "idle"
  /\ faulted' = TRUE
  /\ last_exit' = "setup_error"
  /\ UNCHANGED <<fixed, progress_file, sheet_cells, locals>>
  /\ UNCHANGED <<examined_before, attempted_now, skipped_now, fetched_now,
                 halt_at, prev_halt, prev_start, last_write, slept, prev_done, lost>>

\* The script ends before the chunk: only the way it ended is recorded.
EndsEarly(how) ==
  /\ last_exit' = how
  /\ UNCHANGED <<fixed, progress_file, sheet_cells, locals>>
  /\ UNCHANGED <<examined_before, attempted_now, skipped_now, fetched_now,
                 halt_at, prev_halt, prev_start, faulted, last_write,
                 slept, prev_done, lost>>

\* Lines 233-260: read the identifier column, load the checkpoint, decide
\* whether anything is left, and enter process_chunk (lines 134-143).
StartRun ==
  /\ pc = "idle"
  /\ LET list == ReadAsins(all_values)
         total_asins == Len(list)
     IN IF Len(all_values) < START_ROW \/ list = <<>>
        THEN EndsEarly("read_error")
        ELSE IF LoadRaises(progress_file)
        THEN EndsEarly("load_error")
        ELSE IF load_progress(progress_file) >= total_asins
        THEN EndsEarly("all_processed")
        ELSE /\ pc' = "loop"
             /\ asins' = list
             /\ start_index' = load_progress(progress_file)
             /\ index' = load_progress(progress_file)
             /\ end_index' = EndIndex(load_progress(progress_file), chunk_size, total_asins)
             /\ data' = <<>>
             /\ products_processed' = 0
             /\ products_with_data' = 0
             /\ last_exit' = "running"
             /\ UNCHANGED <<last_processed, write_i>>
             /\ UNCHANGED <<fixed, progress_file, sheet_cells>>
             /\ UNCHANGED <<examined_before, attempted_now, skipped_now, fetched_now,
                            halt_at, prev_halt, prev_start, faulted,
                            last_write, slept, prev_done, lost>>

\* Line 148: a blank entry is skipped.
ItemBlank ==
  /\ index' = index + 1
  /\ UNCHANGED <<pc, asins, start_index, end_index, data,
                 products_processed, products_with_data, last_processed, write_i>>
  /\ UNCHANGED <<fixed, progress_file, sheet_cells, history>>

\* The failed item is counted as processed.
ItemRaises_counts(delayed) ==
  /\ index' = index + 1
  /\ fetched_now' = Append(fetched_now, index)
  /\ skipped_now' = skipped_now \cup {index}
  /\ faulted' = TRUE
  /\ slept' = delayed
  /\ products_processed' = products_processed + 1
  /\ UNCHANGED <<pc, asins, start_index, end_index, data,
                 products_with_data, last_processed, write_i>>
  /\ UNCHANGED <<fixed, progress_file, sheet_cells>>
  /\ UNCHANGED <<examined_before, attempted_now, halt_at, prev_halt,
                 prev_start, last_exit, last_write, prev_done, lost>>

\* Lines 154-157, 188-190: session.get raises (delayed = FALSE: line 155 is
\* not reached) or the parse after the delay raises (delayed = TRUE); the
\* handler prints the error and continues with the next position.
ItemRaises(delayed) ==
  /\ index' = index + 1
  /\ fetched_now' = Append(fetched_now, index)
  /\ skipped_now' = skipped_now \cup {index}
  /\ faulted' = TRUE
  /\ slept' = delayed
  /\ UNCHANGED <<pc, asins, start_index, end_index, data,
                 products_processed, products_with_data, last_processed, write_i>>
  /\ UNCHANGED <<fixed, progress_file, sheet_cells>>
  /\ UNCHANGED <<examined_before, attempted_now, halt_at, prev_halt,
                 prev_start, last_exit, last_write, prev_done, lost>>

\* Lines 154-161: the page is a challenge page; process_chunk returns.
ItemChallenge ==
  /\ fetched_now' = Append(fetched_now, index)
  /\ slept' = TRUE
  /\ pc' = "save"
  /\ last_processed' = CaptchaStopIndex(index)
  /\ halt_at' = index
  /\ faulted' = TRUE
  /\ UNCHANGED <<asins, start_index, end_index, index, data,
                 products_processed, products_with_data, write_i>>
  /\ UNCHANGED <<fixed, progress_file, sheet_cells>>
  /\ UNCHANGED <<examined_before, attempted_now, skipped_now, prev_halt,
                 prev_start, last_exit, last_write, prev_done, lost>>

\* Only an item with data is counted as processed.
ItemClassified_foundonly(asin, result) ==
  /\ fetched_now' = Append(fetched_now, index)
  /\ slept' = TRUE
  /\ attempted_now' = attempted_now \cup {index}
  /\ IF result.kind = "Found"
     THEN /\ data' = Append(data, <<asin, result.text>>)
          /\ products_with_data' = products_with_data + 1
          /\ products_processed' = products_processed + 1
     ELSE UNCHANGED <<data, products_with_data, products_processed>>
  /\ index' = index + 1
  /\ UNCHANGED <<pc, asins, start_index, end_index, last_processed, write_i>>
  /\ UNCHANGED <<fixed, progress_file, sheet_cells>>
  /\ UNCHANGED <<examined_before, skipped_now, halt_at, prev_halt, prev_start,
                 faulted, last_exit, last_write, prev_done, lost>>

\* Lines 154-157, 163-186: the page is classified Found or NotFound.
ItemClassified(asin, result) ==
  /\ fetched_now' = Append(fetched_now, index)
  /\ slept' = TRUE
  /\ products_processed' = products_processed + 1
  /\ attempted_now' = attempted_now \cup {index}
  /\ IF result.kind = "Found"
     THEN /\ data' = Append(data, <<asin, result.text>>)
          /\ products_with_data' = products_with_data + 1
     ELSE UNCHANGED <<data, products_with_data>>
  /\ index' = index + 1
  /\ UNCHANGED <<pc, asins, start_index, end_index, last_processed, write_i>>
  /\ UNCHANGED <<fixed, progress_file, sheet_cells>>
  /\ UNCHANGED <<examined_before, skipped_now, halt_at, prev_halt, prev_start,
                 faulted, last_exit, last_write, prev_done, lost>>

\* Lines 145-190: one iteration of the loop of process_chunk.
ProcessItem ==
  /\ pc = "loop"
  /\ index < end_index
  /\ LET asin == asins[index + 1]
     IN IF ~NonBlank(asin)
        THEN ItemBlank
        ELSE \/ \E delayed \in BOOLEAN : ItemRaises(delayed)
             \/ \E d \in FetchDocs :
                  IF Extract(d).kind = "Challenge"
                  THEN ItemChallenge
                  ELSE ItemClassified(asin, Extract(d))

\* process_chunk writes the checkpoint itself before returning.
ReturnChunk_saves ==
  /\ pc = "loop"
  /\ index = end_index
  /\ pc' = "save"
  /\ last_processed' = NormalStopIndex(end_index)
  /\ progress_file' = ValidFile(NormalStopIndex(end_index))
  /\ UNCHANGED <<asins, start_index, end_index, index, data,
                 products_processed, products_with_data, write_i>>
  /\ UNCHANGED <<fixed, sheet_cells, history>>

\* Line 192: the loop is exhausted.
ReturnChunk ==
  /\ pc = "loop"
  /\ index = end_index
  /\ pc' = "save"
  /\ last_processed' = NormalStopIndex(end_index)
  /\ UNCHANGED <<asins, start_index, end_index, index, data,
                 products_processed, products_with_data, write_i>>
  /\ UNCHANGED <<fixed, progress_file, sheet_cells, history>>

\* Line 266 (lines 123-130): save_progress(last_processed).
SaveProgress ==
  /\ pc = "save"
  /\ progress_file' = ValidFile(last_processed)
  /\ pc' = "write"
  /\ write_i' = 1
  /\ UNCHANGED <<asins, start_index, end_index, index, data,
                 products_processed, products_with_data, last_processed>>
  /\ UNCHANGED <<fixed, sheet_cells, history>>

\* Lines 276-279: one sheet update.
WriteResult ==
  /\ pc = "write"
  /\ write_i <= Len(data)
  /\ LET entry == data[write_i]
         row_index == RowIndex(asins, entry[1])
     IN /\ sheet_cells' = [sheet_cells EXCEPT ![row_index] = entry[2]]
        /\ last_write' = <<entry[1], row_index>>
        /\ lost' = lost \ {row_index}
  /\ write_i' = write_i + 1
  /\ UNCHANGED <<pc, asins, start_index, end_index, index, data,
                 products_processed, products_with_data, last_processed>>
  /\ UNCHANGED <<fixed, progress_file>>
  /\ UNCHANGED <<examined_before, attempted_now, skipped_now, fetched_now,
                 halt_at, prev_halt, prev_start, faulted, last_exit,
                 slept, prev_done>>

\* sheet.update raises: the outer handler (lines 289-291) ends the script.
SinkFails ==
  /\ pc = "write"
  /\ write_i <= Len(data)
  /\ Exit("sink_error", halt_at, -1, TRUE)
  /\ faulted' = TRUE
  /\ UNCHANGED <<fixed, progress_file, sheet_cells>>

\* Lines 281-287: the summary is printed and the script ends.
Finish ==
  /\ pc = "write"
  /\ write_i > Len(data)
  /\ Exit("completed", halt_at, -1, TRUE)
  /\ UNCHANGED <<fixed, progress_file, sheet_cells, faulted>>

\* The process is terminated from outside, anywhere but inside save_progress.
Crash ==
  /\ pc \in {"loop", "save", "write"}
  /\ Exit("crash",
          IF pc = "write" THEN halt_at ELSE -1,
          IF pc \in {"loop", "save"} THEN start_index ELSE -1,
          pc = "write")
  /\ faulted' = TRUE
  /\ UNCHANGED <<fixed, progress_file, sheet_cells>>

\* What open(PROGRESS_FILE, 'w') + json.dump leave behind when the process
\* dies inside save_progress: a truncated or partial file, or the full record.
InterruptedSave(idx) == {CorruptFile, ValidFile(idx)}

\* Lines 125-129: the process is terminated inside save_progress.
CrashInSave ==
  /\ pc = "save"
  /\ \E f \in InterruptedSave(last_processed) :
       /\ progress_file' = f
       /\ Exit("crash", IF f.kind = "valid" THEN halt_at ELSE -1, -1, f.kind = "valid")
  /\ faulted' = TRUE
  /\ UNCHANGED <<fixed, sheet_cells>>

Next ==
  \/ SetupFails
  \/ StartRun
  \/ ProcessItem
  \/ ReturnChunk
  \/ SaveProgress
  \/ WriteResult
  \/ SinkFails
  \/ Finish
  \/ Crash
  \/ CrashInSave

Spec == Init /\ [][Next]_vars

\* The script is invoked again and again, and a running invocation keeps going.
FairSpec == Spec /\ WF_vars(Next)

\* The extractor alone: any bounded page is classified once.
ExtractInit ==
  /\ all_values = <<>>
  /\ chunk_size = 1
  /\ doc \in { d \in ExtractDocs : d.primary \in PrimaryChoices(d.elems) }
  /\ outcome = NoOutcome
  /\ Idle

\* Lines 157-186 applied to the page.
Classify ==
  /\ outcome = NoOutcome
  /\ outcome' = Extract(doc)
  /\ UNCHANGED <<all_values, chunk_size, doc, progress_file, sheet_cells,
                 locals, history>>

ExtractNext == Classify

ExtractSpec == ExtractInit /\ [][ExtractNext]_vars

TypeOK ==
  /\ pc \in {"idle", "loop", "save", "write"}
  /\ progress_file.kind \in {"absent", "corrupt", "valid"}
  /\ index \in 0..MaxLen
  /\ products_with_data <= products_processed

(* ----------------------------- claims ---------------------------------- *)
\* Positions of the identifier list the script works on.
Positions == 0..(Len(ReadAsins(all_values)) - 1)

\* Positions fetched and classified, or skipped after an error, so far.
Examined == examined_before \cup attempted_now \cup skipped_now

AllAttempted == \A p \in Positions : p \in examined_before \cup attempted_now

\* C1: started without a checkpoint and re-invoked for ever, with no challenge
\* page (and no fetch error, setup error, sink error or crash either), the
\* script eventually attempts every identifier position.
C1_Coverage == <>(faulted \/ AllAttempted)

\* C2: with no challenge page and no error, no position is attempted by two
\* invocations: an invocation never attempts a position attempted before it.
C2_ExactlyOnce == ~faulted => attempted_now \cap examined_before = {}

\* C3: with no challenge page (and no other failure), some invocation
\* eventually takes the 'all processed' branch.
C3_Terminates == <>(faulted \/ last_exit = "all_processed")

\* C4: a challenge page at position k stops the chunk at once with
\* stop_index = k, k is not counted as attempted and nothing beyond k is
\* fetched; the invocation after the saved checkpoint fetches k first.
C4_ChallengeHalt ==
  /\ halt_at # -1 =>
       /\ pc \in {"save", "write"}
       /\ last_processed = halt_at
       /\ halt_at \notin attempted_now
       /\ products_processed = Cardinality(attempted_now)
       /\ fetched_now[Len(fetched_now)] = halt_at
       /\ \A i \in 1..Len(fetched_now) : fetched_now[i] <= halt_at
  /\ (prev_halt # -1 /\ fetched_now # <<>>) => fetched_now[1] = prev_halt

\* A challenge page halted an invocation at a position beyond the first, its
\* checkpoint was saved, and the next invocation has fetched again.
C4_Witness == prev_halt > 0 /\ fetched_now # <<>> /\ pc = "loop"

\* C5: whenever the checkpoint holds index i, every position <= i has been
\* attempted or skipped after a fetch error; a challenge halt at k leaves a
\* checkpoint that does not cover k.
C5_CheckpointMeaning ==
  progress_file.kind = "valid" =>
    /\ \A p \in 0..progress_file.idx : p \in Examined
    /\ (pc = "write" /\ halt_at # -1) => progress_file.idx < halt_at

\* C6: a blank cell is never fetched and never yields a result, but keeps its
\* position: the list the chunk works on is the column, cell for cell.
C6_BlankKeepsPosition ==
  pc # "idle" =>
    /\ \A i \in 1..Len(fetched_now) : NonBlank(asins[fetched_now[i] + 1])
    /\ \A i \in 1..Len(data) : NonBlank(data[i][1])
    /\ asins = ColumnData(all_values)

NoDuplicates(s) == \A i, j \in 1..Len(s) : (NonBlank(s[i]) /\ s[i] = s[j]) => i = j

\* C7: in a column without duplicate identifiers, every sheet update goes to
\* the row the identifier was read from.
C7_PositionalRows ==
  (NoDuplicates(ColumnData(all_values)) /\ last_write # <<>>) =>
    all_values[last_write[2]] = last_write[1]

\* C8: the chunk starts at the stored index when the checkpoint is readable
\* and at 0 when it is missing or corrupt; a corrupt checkpoint never aborts
\* the run.
C8_LoadFallback ==
  /\ pc \in {"loop", "save"} =>
       start_index = (IF progress_file.kind = "valid" THEN progress_file.idx ELSE 0)
  /\ last_exit # "load_error"

\* C9: every step, a crash inside save_progress included, leaves the
\* checkpoint as it was or holding the newly saved index, and no invocation
\* is ever stopped by an unreadable checkpoint.
C9_CrashSafe ==
  /\ [][progress_file' = progress_file \/ progress_file' = ValidFile(last_processed)]_vars
  /\ [](last_exit # "load_error")

\* C10: the checkpoint is read once, when the chunk starts, and written at
\* most once, after process_chunk has returned; a setup error ends the run
\* with no fetch and the checkpoint untouched; a crash between the start of
\* the chunk and the save leaves the checkpoint untouched and the next
\* invocation starts the chunk at the same index.
C10_CheckpointFrame ==
  [][/\ progress_file' # progress_file => (pc = "save" /\ pc' # "save")
     /\ start_index' # start_index => (pc = "idle" \/ pc' = "idle")
     /\ (last_exit' \in {"setup_error", "read_error"} /\ last_exit' # last_exit) =>
          (progress_file' = progress_file /\ pc' = "idle" /\ fetched_now' = <<>>)
     /\ (pc \in {"loop", "save"} /\ prev_start' # -1 /\ pc' = "idle") =>
          (progress_file' = progress_file /\ prev_start' = start_index)
     /\ (pc = "idle" /\ pc' = "loop" /\ prev_start # -1) =>
          (start_index' = prev_start /\ index' = prev_start)]_vars

\* An invocation crashed before saving, beyond position 0, and the next one
\* has started the same chunk again and fetched.
C10_Witness ==
  pc = "loop" /\ prev_start > 0 /\ start_index = prev_start /\ fetched_now # <<>>

\* C11: an invocation that follows one interrupted after its checkpoint save
\* fetches none of the positions the interrupted one attempted.
C11_NoReprocess ==
  prev_done # -1 => \A i \in 1..Len(fetched_now) : fetched_now[i] > prev_done

\* C12: a fetch error at position i leaves the counters and the results as
\* they were and the loop goes on with i+1; without a challenge page the
\* chunk still returns end_index - 1, whatever was skipped.
C12_ErrorsLocal ==
  /\ [][(index \in skipped_now' /\ index \notin skipped_now) =>
          /\ pc = "loop" /\ pc' = "loop"
          /\ index' = index + 1
          /\ products_processed' = products_processed
          /\ products_with_data' = products_with_data
          /\ data' = data
          /\ end_index' = end_index]_vars
  /\ []((pc \in {"save", "write"} /\ halt_at = -1) => last_processed = end_index - 1)
  /\ [](skipped_now \cap attempted_now = {})

\* A fetch failed, the next position was classified and the chunk returned
\* normally.
C12_Witness ==
  /\ pc = "save"
  /\ halt_at = -1
  /\ \E i \in skipped_now : i + 1 \in attempted_now

\* The page carries a challenge marker: the input field or the phrase.
HasChallengeMarker(d) ==
  \/ d.captcha_input
  \/ \E i \in 1..(Len(d.body_text) - 1) :
       /\ LowerWord(d.body_text[i]) = "robot"
       /\ LowerWord(d.body_text[i + 1]) = "check"

HasWord(t, w) == \E i \in 1..Len(t) : LowerWord(t[i]) = w

\* Positions of the elements the fallback scan accepts.
FallbackCandidates(d) ==
  { i \in 1..Len(d.elems) :
      /\ d.elems[i].tag \in {"span", "div", "p"}
      /\ HasWord(d.elems[i].string, "bought")
      /\ HasWord(d.elems[i].string, "month") }

\* C13: a page with a challenge marker is classified Challenge and yields no
\* result text, whatever primary or fallback element it also carries.
C13_ChallengeFirst ==
  (outcome # NoOutcome /\ HasChallengeMarker(doc)) =>
    (outcome.kind = "Challenge" /\ outcome.text = <<>>)

\* A page with the challenge phrase that also carries the primary element
\* has been classified.
C13_Witness ==
  /\ outcome # NoOutcome
  /\ ~doc.captcha_input
  /\ HasChallengeMarker(doc)
  /\ doc.primary = PrimaryElem

\* C14: a page without challenge marker yields the text of the primary
\* element when it exists and has 'month'; otherwise the text of the first
\* span/div/p whose direct text has 'bought' and 'month'; otherwise NotFound.
\* A primary element without 'month' is never the result.
C14_PrimaryThenFallback ==
  (outcome # NoOutcome /\ ~HasChallengeMarker(doc)) =>
    /\ IF doc.primary # NoElem /\ HasWord(doc.primary.text, "month")
       THEN outcome = [kind |-> "Found", text |-> doc.primary.text]
       ELSE IF FallbackCandidates(doc) # {}
       THEN \E i \in FallbackCandidates(doc) :
              /\ \A j \in FallbackCandidates(doc) : i <= j
              /\ outcome = [kind |-> "Found", text |-> doc.elems[i].text]
       ELSE outcome = [kind |-> "NotFound", text |-> <<>>]
    /\ (doc.primary # NoElem /\ ~HasWord(doc.primary.text, "month")) =>
         outcome.text # doc.primary.text

\* The primary element lacks 'month' and a later element, not the first of
\* the page, was found by the fallback scan.
C14_Witness ==
  /\ outcome.kind = "Found"
  /\ doc.primary = PlainSpan
  /\ FallbackCandidates(doc) = {2}

\* C15: a chunk started at start examines only start..end_index-1 with
\* end_index = min(start + c, n), in increasing order, each position at most
\* once; without a challenge page it returns end_index - 1, within start..n-1.
C15_ChunkBounds ==
  pc # "idle" =>
    /\ 0 <= start_index /\ start_index < Len(asins)
    /\ end_index <= Len(asins)
    /\ end_index <= start_index + chunk_size
    /\ end_index = Len(asins) \/ end_index = start_index + chunk_size
    /\ \A i \in 1..Len(fetched_now) :
         start_index <= fetched_now[i] /\ fetched_now[i] < end_index
    /\ \A i, j \in 1..Len(fetched_now) : i < j => fetched_now[i] < fetched_now[j]
    /\ (pc \in {"save", "write"} /\ halt_at = -1) =>
         /\ last_processed = end_index - 1
         /\ start_index <= last_processed
         /\ last_processed <= Len(asins) - 1

\* A chunk cut by the chunk size before the end of the list has fetched
\* several positions and returned normally.
C15_Witness ==
  /\ pc = "save"
  /\ halt_at = -1
  /\ end_index < Len(asins)
  /\ end_index = start_index + chunk_size
  /\ Len(fetched_now) >= 2

\* C16: found_count is the number of results and is at most attempted_count,
\* which is the number of positions classified Found or NotFound; a Found
\* page appends one (identifier, text) pair and increments both counters, a
\* NotFound page increments attempted_count only.
C16_Counters ==
  /\ [](/\ products_with_data = Len(data)
        /\ products_with_data <= products_processed
        /\ products_processed = Cardinality(attempted_now))
  /\ [][(index \in attempted_now' /\ index \notin attempted_now) =>
          /\ products_processed' = products_processed + 1
          /\ \/ /\ Len(data') = Len(data) + 1
                /\ SubSeq(data', 1, Len(data)) = data
                /\ data'[Len(data')][1] = asins[index + 1]
                /\ products_with_data' = products_with_data + 1
             \/ /\ data' = data
                /\ products_with_data' = products_with_data]_vars

\* A chunk has classified one page Found and another NotFound.
C16_Witness ==
  pc = "save" /\ products_processed = 2 /\ products_with_data = 1

\* C17: no fetch is issued in a chunk unless the delay has run since the
\* chunk's previous fetch.
C17_RateLimit ==
  [][(fetched_now # <<>> /\ Len(fetched_now') > Len(fetched_now)) => slept]_vars

\* C18: every sheet update goes to START_ROW + the first list index of its
\* identifier, and the row of a later occurrence of a value is never written.
C18_FirstOccurrenceRow ==
  LET list == ReadAsins(all_values)
  IN /\ last_write # <<>> =>
          \E i \in 1..Len(list) :
            /\ list[i] = last_write[1]
            /\ \A j \in 1..(i - 1) : list[j] # last_write[1]
            /\ last_write[2] = START_ROW + (i - 1)
     /\ \A j \in 1..Len(list) :
          (\E i \in 1..(j - 1) : list[i] = list[j]) =>
            sheet_cells[START_ROW + (j - 1)] = <<>>

\* An invocation that processed only a later occurrence of a value has
\* written its result to the row of the first occurrence.
C18_Witness ==
  /\ pc = "write"
  /\ last_write # <<>>
  /\ start_index >= 1
  /\ last_write[2] - START_ROW < start_index

\* C19: every checkpoint index saved is at least the index the invocation
\* loaded, never below the index it replaces, and within 0..n-1.
C19_Monotone ==
  [][(progress_file' # progress_file /\ progress_file'.kind = "valid") =>
       /\ progress_file'.idx >= start_index
       /\ progress_file'.idx >= 0
       /\ progress_file'.idx <= Len(asins) - 1
       /\ progress_file.kind = "valid" => progress_file'.idx >= progress_file.idx]_vars

\* An invocation that resumed beyond position 0 and skipped a position after
\* an error has saved a larger index.
C19_Witness ==
  /\ pc = "write"
  /\ start_index > 0
  /\ skipped_now # {}
  /\ progress_file = ValidFile(last_processed)
  /\ last_processed > start_index

\* C20: no result is lost because the checkpoint advanced past its position
\* before it was written: a later invocation fetches only positions at or
\* beyond the checkpoint, so every row an invocation with a saved checkpoint
\* left unwritten still has a position there that writes to it.
C20_Durable ==
  LET list == ReadAsins(all_values)
  IN progress_file.kind = "valid" =>
       \A r \in lost :
         \E p \in progress_file.idx..(Len(list) - 1) : RowIndex(list, list[p + 1]) = r

====
